---- MODULE Spec2Model ----
(***************************************************************************)
(* Mini-DERMS feeder controller: the single-device agent                   *)
(* (src/pi_der_agent.py) and the multi-device simulator                    *)
(* (src/simulator/simulator.py).                                           *)
(*                                                                         *)
(* Numbers are fixed point.  The agent counts power in units of 0.2 kW     *)
(* (AgentPowerScale units per kW), the simulator in units of 0.1 kW        *)
(* (SimPowerScale), and numbers on the wire are tenths of a kW (WireScale).*)
(* The agent's SOC is counted in units of 0.1 percent (0..1000).  The simulator's SOC is a fraction n/SocDen(d)   *)
(* with a per-device denominator chosen so that one power unit over one    *)
(* DT_SECONDS tick moves the SOC by exactly one unit.                      *)
(* Optional values are sequences: <<>> is None, <<v>> is the value v.      *)
(* A behaviour runs one of the two programs, chosen in Init (prog).        *)
(***************************************************************************)
EXTENDS Integers, Sequences, FiniteSets, TLC

\* ------------------------------------------------------------------ bounds
MaxIds == 2
MaxNow == 1
MaxTicks == 2
MaxFailures == 7

\* ------------------------------------------------------- scales, constants
AgentPowerScale == 5
SimPowerScale == 10
WireScale == 10
AgentSocScale == 10
SecondsPerHour == 3600

None == <<>>
Some(x) == <<x>>

Abs(x) == IF x < 0 THEN -x ELSE x
Max(a, b) == IF a < b THEN b ELSE a
Min(a, b) == IF b < a THEN b ELSE a

\* n/d rounded to the nearest integer (d > 0), ties away from zero
RoundDiv(n, d) == IF n >= 0 THEN (2 * n + d) \div (2 * d)
                            ELSE -((2 * (-n) + d) \div (2 * d))

\* 1000 * sin(pi * n / d) for 0 <= n <= d, by Bhaskara's rational form
\* 16 q / (5 d^2 - 4 q) with q = n (d - n); the division is done in two
\* stages to stay inside 32-bit integers
Sin1000(n, d) ==
  LET a == 16 * n * (d - n)
      b == 5 * d * d - 4 * n * (d - n)
  IN  10 * ((100 * a) \div b) + (10 * ((100 * a) % b)) \div b

\* ------------------------------------------------------------ JSON values
\* A decoded JSON value: t is its Python type after json.loads, n its
\* numeric value (True is 1, False is 0).
JAbsent == [t |-> "absent", n |-> 0]
JNull == [t |-> "null", n |-> 0]
JStr(i) == [t |-> "str", n |-> i]
JNum(x) == [t |-> "num", n |-> x]
JBool(b) == [t |-> "bool", n |-> IF b THEN 1 ELSE 0]
JList == [t |-> "list", n |-> 0]
JObj == [t |-> "obj", n |-> 0]

\* isinstance(x, (int, float)): bool is a subclass of int
IsIntOrFloat(j) == j.t \in {"num", "bool"}
\* isinstance(x, str)
IsStr(j) == j.t = "str"
\* x.get(key) yields None for an absent key
IsNone(j) == j.t \in {"absent", "null"}

\* ------------------------------------------------------------ input sets
\* setpoint targets on the wire, in tenths of a kW (-6.0 and 4.0 kW)
SetpointChoices == {-60, 40}
\* the agent's config: device_type and p_max_kw in agent power units
\* (a 4.0 kW PV, a 1.0 kW battery, an EV charger with p_max_kw 0)
AgentConfigs == {[device_type |-> "pv", p_max_kw |-> 20, topic_prefix |-> "der"],
                 [device_type |-> "battery", p_max_kw |-> 5, topic_prefix |-> "der"],
                 [device_type |-> "ev", p_max_kw |-> 0, topic_prefix |-> "der"]}
\* dt_seconds handed to step: clock jump backwards, no time, 1 hour
DtChoices == {-3600, 0, 3600}
\* random.uniform(-0.05, 0.05), in thousandths
NoiseChoices == {-50, 0, 50}
\* minute of the day read by compute_pv_power
PvMinutes == {0, 360, 540, 720, 1080, 1200}

MsgIds == 1..MaxIds
IdValues == {JStr(i) : i \in MsgIds} \cup {JAbsent, JNum(7)}
VuValues == {JNum(t) : t \in 0..MaxNow} \cup {JAbsent, JStr(0)}
TargetValues == {JNum(x) : x \in SetpointChoices}
                  \cup {JAbsent, JNull, JStr(0), JBool(TRUE), JList, JObj}

\* A delivered payload.  enc: how the bytes decode; top: whether the JSON
\* document is an object; payload / command: the shape of those members.
WellFormed(id, vu, tg) ==
  [enc |-> "json", top |-> "obj", v |-> JNum(1), messageType |-> "setpoint",
   messageId |-> id, payload |-> "obj", command |-> "obj",
   validUntilMs |-> vu, targetPowerKw |-> tg]

BaseMsg == WellFormed(JStr(1), JAbsent, JNum(40))

Malformed ==
  {[BaseMsg EXCEPT !.enc = e] : e \in {"bad_utf8", "bad_json"}}
    \cup {[BaseMsg EXCEPT !.top = "nonobj"]}
    \cup {[BaseMsg EXCEPT !.v = x] : x \in {JNum(2), JAbsent, JBool(TRUE), JStr(1)}}
    \cup {[BaseMsg EXCEPT !.messageType = x] : x \in {"telemetry", "absent"}}
    \cup {[BaseMsg EXCEPT !.payload = x] : x \in {"absent", "null", "falsy", "truthy_nonobj"}}
    \cup {[BaseMsg EXCEPT !.command = x] : x \in {"absent", "null", "nonobj"}}

\* well-formed envelopes: every messageId with every target, every deadline
\* with and without a messageId, and a deadline at 0 with a missing or
\* non-number target
Messages ==
  {WellFormed(id, JAbsent, tg) : id \in IdValues, tg \in TargetValues}
    \cup {WellFormed(id, vu, JNum(40)) : id \in {JStr(1), JAbsent}, vu \in VuValues}
    \cup {WellFormed(JStr(1), JNum(0), tg) : tg \in {JAbsent, JStr(0), JBool(TRUE)}}
    \cup Malformed

Rejections == {"wrong_type", "duplicate", "expired", "missing_target", "invalid_target"}

\* ------------------------------------------------------------------ state
\* prog: which program runs; config, state: the agent's AgentConfig and
\* DERState; last: what the last operation was and how it ended;
\* applied: the (device, messageId) pairs of the commands applied so far
\* sim: the simulator's module globals; sim_time (second of the day), tick:
\* the locals of main; device: the entry of DEVICES whose loop body the
\* behaviour follows; telemetry: the readings published by the last loop
\* iteration (None when it published nothing).
\* pc: where the main thread is (load: AgentConfig.load, config_error: load
\* raised, connect: connect_with_backoff, loop: between two iterations of
\* the control loop, read / stepped: inside state.step and after it,
\* raised: the loop was left by an exception); doc: the configuration
\* document being loaded; backoff: the locals of connect_with_backoff;
\* locals: what step has read so far; running: the flag of run_agent that
\* handle_signal clears (exited: run_agent has returned); client: whether
\* the MQTT client's network thread runs (loop) and whether it is connected.
\* calls: for one update_from_control call that runs concurrently with one
\* step call, the DERState both started from (start), the arguments of the
\* two calls, where the update is (upd), its outcome (res), and where the
\* update was when step tested p_setpoint_kw (tested_at) and when step read
\* its value (read_at).
VARIABLES prog, config, state, last, applied,
          sim, sim_time, tick, device, telemetry,
          pc, doc, backoff, locals, running, client, calls

vars == <<prog, config, state, last, applied,
          sim, sim_time, tick, device, telemetry,
          pc, doc, backoff, locals, running, client, calls>>
agentVars == <<config, state>>
simVars == <<sim, sim_time, tick, device>>
mainVars == <<pc, doc, backoff, locals, running, client>>

\* float(new_setpoint) in power units of the given scale: True is 1.0 kW
TargetUnits(j, scale) ==
  IF j.t = "bool" THEN j.n * scale ELSE (j.n * scale) \div WireScale

\* the members update_from_control reads from the command object;
\* (payload.get("payload") or {}).get("command", {}) is {} when either
\* member is absent, or the payload member is falsy
CommandField(payload, f) ==
  IF payload.payload \in {"absent", "null", "falsy"} \/ payload.command = "absent"
  THEN JAbsent ELSE f

\* .get on something that is not a dict raises AttributeError
CommandRaises(payload) ==
  \/ payload.payload = "truthy_nonobj"
  \/ payload.payload = "obj" /\ payload.command \in {"null", "nonobj"}

\* isinstance(message_id, str) and message_id in <the ledger>
is_duplicate(processed, message_id) ==
  IsStr(message_id) /\ message_id.n \in processed

\* variant: the comparison also rejects a deadline equal to now
is_expired_inclusive(valid_until, now) ==
  IsIntOrFloat(valid_until) /\ valid_until.n <= now

\* isinstance(valid_until, (int, float)) and valid_until < now_ms
is_expired(valid_until, now) ==
  IsIntOrFloat(valid_until) /\ valid_until.n < now

\* isinstance(new_setpoint, (int, float))
is_number(new_setpoint) == IsIntOrFloat(new_setpoint)

\* ------------------------------------------------------------ simulator
DT_SECONDS == 5
SUNRISE_HOUR == 6
SUNSET_HOUR == 20
DAY_START_HOUR == 7
NIGHT_START_HOUR == 23
BATTERY_KWH == 20
EV_CAPACITIES == [d \in {"ev-001", "ev-003"} |-> IF d = "ev-001" THEN 60 ELSE 40]

\* the modelled entries of DEVICES, p_max_kw in simulator power units
DeviceIds == {"pv-001", "bat-001", "ev-001", "ev-003"}
EvIds == {"ev-001", "ev-003"}
DEVICES ==
  [d \in DeviceIds |->
     CASE d = "pv-001" -> [type |-> "pv", p_max_kw |-> 50]
       [] d = "bat-001" -> [type |-> "battery", p_max_kw |-> 40]
       [] d = "ev-001" -> [type |-> "ev", p_max_kw |-> 72]
       [] d = "ev-003" -> [type |-> "ev", p_max_kw |-> 36]]

\* SOC denominator: one power unit during DT_SECONDS moves the SOC of a
\* store of the given capacity by 1/SocDen(capacity)
SocDen(capacity_kwh) == ((SimPowerScale * SecondsPerHour) \div DT_SECONDS) * capacity_kwh
BatDen == SocDen(BATTERY_KWH)
BATTERY_MIN_SOC == BatDen \div 10
BATTERY_MAX_SOC == (9 * BatDen) \div 10
EvDen(d) == SocDen(EV_CAPACITIES[d])
\* the 0.98 charge-complete cutoff of main
EvCutoff(d) == (98 * EvDen(d)) \div 100

SecondsPerDay == 86400
MinuteOf(t) == t \div 60

\* 1000 * cos(pi * n / d) for 0 <= n <= d
Cos1000(n, d) == IF 2 * n <= d THEN Sin1000(d - 2 * n, 2 * d)
                               ELSE -Sin1000(2 * n - d, 2 * d)

\* random.uniform(-0.2, 0.2) of ramp_power, in simulator power units
RampNoiseChoices == {-2, 0, 2}
\* random.gauss(0, p_max * 0.08) of compute_ev_power, in power units
JitterChoices == {-100, 0, 100}

\* pv_power_kw at the given minute of the day, noise in thousandths
pv_power_kw(minute, p_max_kw, noise) ==
  IF minute <= SUNRISE_HOUR * 60 \/ minute >= SUNSET_HOUR * 60 THEN 0
  ELSE LET shape == Max(Sin1000(minute - SUNRISE_HOUR * 60,
                                (SUNSET_HOUR - SUNRISE_HOUR) * 60), 0)
           level == Max(0, Min(1100, shape + noise))
       IN  RoundDiv(level * p_max_kw, 1000)

\* ramp_power with its random.uniform draw given as noise
ramp_power(current, target, ramp_rate, p_max, p_min, noise) ==
  LET next_power == IF current < target THEN Min(current + ramp_rate, target)
                    ELSE IF current > target THEN Max(current - ramp_rate, target)
                    ELSE current
  IN  Max(p_min, Min(next_power + noise, p_max))

\* derive_profile
derive_profile(minute) ==
  IF DAY_START_HOUR * 60 <= minute /\ minute < NIGHT_START_HOUR * 60
  THEN "day" ELSE "night"

\* variant: the override is not consulted
active_profile_derived(g, minute) == derive_profile(minute)

\* active_profile: SIM_PROFILE_OVERRIDE or derive_profile(sim_time)
active_profile(g, minute) ==
  IF g.SIM_PROFILE_OVERRIDE # None THEN g.SIM_PROFILE_OVERRIDE[1]
  ELSE derive_profile(minute)

\* profile_load_multiplier, in thousandths
profile_load_multiplier(minute, profile) ==
  IF profile = "day"
  THEN LET span == (NIGHT_START_HOUR - DAY_START_HOUR) * 60
           n == Max(0, Min(span, minute - DAY_START_HOUR * 60))
       IN  RoundDiv(12 * (7000 + 6 * Sin1000(n, span)), 100)
  ELSE LET night_window == (24 - NIGHT_START_HOUR + DAY_START_HOUR) * 60
           n0 == IF minute >= NIGHT_START_HOUR * 60
                 THEN minute - NIGHT_START_HOUR * 60
                 ELSE minute + (24 - NIGHT_START_HOUR) * 60
           n == Max(0, Min(night_window, n0))
       IN  550 + RoundDiv(400 * (1000 - Cos1000(n, night_window)), 2000)

\* compute_ev_power: the power and the new LAST_P_ACTUAL
compute_ev_power(g, device_id, p_max, load_multiplier, noise, jitter) ==
  LET setpoint == g.SETPOINTS[device_id]
      target == IF setpoint = None
                THEN Max(0, Min(p_max, RoundDiv(p_max * 55 * load_multiplier, 100000) + jitter))
                ELSE Max(0, Min(p_max, setpoint[1]))
      current == IF g.LAST_P_ACTUAL[device_id] = None THEN target
                 ELSE g.LAST_P_ACTUAL[device_id][1]
      p_actual == ramp_power(current, target, SimPowerScale, p_max, 0, noise)
  IN  [p_actual |-> p_actual,
       g |-> [g EXCEPT !.LAST_P_ACTUAL[device_id] = Some(p_actual)]]

\* variant: the cutoff is only taken at full charge
ev_charge_complete_at_full(d, soc) == soc >= EvDen(d)

\* if soc >= 0.98 (main, EV branch)
ev_charge_complete(d, soc) == soc >= EvCutoff(d)

\* the body of main's device loop for one device: the globals afterwards
\* and the readings it publishes
DeviceBody(g, d, minute, load_multiplier, noise, jitter) ==
  LET p_max == DEVICES[d].p_max_kw
      dtype == DEVICES[d].type
  IN  IF dtype = "pv"
      THEN [g |-> g,
            readings |-> [deviceId |-> d, powerKw |-> pv_power_kw(minute, p_max, noise),
                          soc |-> None]]
      ELSE IF dtype = "battery"
      THEN LET soc0 == g.BATTERY_STATE.soc
               target_p_kw ==
                 IF 100 * soc0 > 55 * BatDen THEN RoundDiv(12 * load_multiplier, 1000)
                 ELSE IF 100 * soc0 < 45 * BatDen THEN -RoundDiv(12 * load_multiplier, 1000)
                 ELSE RoundDiv(2 * (load_multiplier - 1000), 1000)
               p_actual == ramp_power(g.BATTERY_STATE.p_actual_kw, target_p_kw,
                                      SimPowerScale \div 2, p_max, -p_max, noise)
               soc == Max(BATTERY_MIN_SOC, Min(BATTERY_MAX_SOC, soc0 + p_actual))
           IN  [g |-> [g EXCEPT !.BATTERY_STATE = [soc |-> soc, p_actual_kw |-> p_actual]],
                readings |-> [deviceId |-> d, powerKw |-> p_actual, soc |-> Some(soc)]]
      ELSE LET r == compute_ev_power(g, d, p_max, load_multiplier, noise, jitter)
               soc == Max(0, Min(EvDen(d), g.EV_STATE[d].soc + r.p_actual))
               cut == ev_charge_complete(d, soc)
               p_actual == IF cut THEN 0 ELSE r.p_actual
               g1 == IF cut THEN [r.g EXCEPT !.LAST_P_ACTUAL[d] = Some(0)] ELSE r.g
           IN  [g |-> [g1 EXCEPT !.EV_STATE[d] =
                          [soc |-> soc, p_actual_kw |-> p_actual,
                           p_setpoint_kw |-> g.SETPOINTS[d]]],
                readings |-> [deviceId |-> d, powerKw |-> p_actual, soc |-> Some(soc)]]

\* variant: the ledger keeps only the newest messageId
store_setpoint_evicts(g, device_id, message_id, setpoint) ==
  [g EXCEPT
    !.SETPOINTS[device_id] = Some(TargetUnits(setpoint, SimPowerScale)),
    !.PROCESSED_SETPOINTS = IF IsStr(message_id) THEN {message_id.n} ELSE @]

\* the assignments of on_message for an accepted setpoint
store_setpoint(g, device_id, message_id, setpoint) ==
  [g EXCEPT
    !.SETPOINTS[device_id] = Some(TargetUnits(setpoint, SimPowerScale)),
    !.PROCESSED_SETPOINTS = IF IsStr(message_id) THEN @ \cup {message_id.n} ELSE @]

\* on_message of the simulator on topic <prefix>/setpoints/.../<device_id>
Sim_on_message(g, device_id, payload, now) ==
  LET message_id == payload.messageId
      valid_until == CommandField(payload, payload.validUntilMs)
      setpoint == CommandField(payload, payload.targetPowerKw)
      reject(r) == [g |-> g, res |-> r]
  IN  IF payload.enc = "bad_utf8" THEN reject("raised")
      ELSE IF payload.enc = "bad_json" THEN reject("decode_error")
      ELSE IF payload.top # "obj" THEN reject("raised")
      ELSE IF payload.messageType # "setpoint"
                \/ ~(IsIntOrFloat(payload.v) /\ payload.v.n = 1)
        THEN reject("wrong_type")
      ELSE IF is_duplicate(g.PROCESSED_SETPOINTS, message_id)
        THEN reject("duplicate")
      ELSE IF CommandRaises(payload) THEN reject("raised")
      ELSE IF is_expired(valid_until, now) THEN reject("expired")
      ELSE IF ~is_number(setpoint)
        THEN reject(IF IsNone(setpoint) THEN "missing_target" ELSE "invalid_target")
      ELSE [g |-> store_setpoint(g, device_id, message_id, setpoint), res |-> "applied"]

\* on_message of the simulator on topic <prefix>/simulation/profile
Sim_on_profile(g, enc, top, profile) ==
  IF enc = "bad_utf8" THEN [g |-> g, res |-> "raised"]
  ELSE IF enc = "bad_json" THEN [g |-> g, res |-> "decode_error"]
  ELSE IF top # "obj" THEN [g |-> g, res |-> "raised"]
  ELSE IF profile \in {"day", "night"}
    THEN [g |-> [g EXCEPT !.SIM_PROFILE_OVERRIDE = Some(profile)], res |-> "applied"]
  ELSE [g |-> g, res |-> "ignored"]

\* the module globals right after import, per-EV soc given
SimGlobals(ev_soc) ==
  [SETPOINTS |-> [d \in DeviceIds |-> None],
   PROCESSED_SETPOINTS |-> {},
   LAST_P_ACTUAL |-> [d \in EvIds |-> None],
   SIM_PROFILE_OVERRIDE |-> None,
   BATTERY_STATE |-> [soc |-> BatDen \div 2, p_actual_kw |-> 0],
   EV_STATE |-> [d \in EvIds |->
                   [soc |-> ev_soc[d], p_actual_kw |-> 0, p_setpoint_kw |-> None]]]

\* the value of sim while the agent runs
SimIdle == SimGlobals([d \in EvIds |-> 0])

\* -------------------------------------------------------- configuration
\* A configuration document as json.load returns it.  For a key, the Python
\* type of its value: "str", "int", "float", "bool", "null", or "absent"
\* when the document has no such key.  device_type and topic_prefix carry
\* their string value ("nonstr": a value that is not a string); p_max_kw
\* carries its value in agent power units; extra: the document has a key
\* that is not a field of AgentConfig.
RequiredFields == {"broker_host", "broker_port", "device_id", "device_type",
                   "site_id", "p_max_kw", "publish_interval_seconds"}

\* the dict `required` of _validate_fields
required ==
  [k \in RequiredFields |->
     IF k \in {"broker_port", "publish_interval_seconds"} THEN "int"
     ELSE IF k = "p_max_kw" THEN "int_or_float" ELSE "str"]

\* isinstance(value, expected_type) on the type of the value: bool is a
\* subclass of int
IsInstance(t, expected_type) ==
  IF expected_type = "str" THEN t = "str"
  ELSE IF expected_type = "int" THEN t \in {"int", "bool"}
  ELSE t \in {"int", "float", "bool"}

\* the type of data[key]
FieldType(data, key) ==
  IF key = "device_type"
    THEN (IF data.device_type = "absent" THEN "absent"
          ELSE IF data.device_type = "nonstr" THEN "int" ELSE "str")
  ELSE IF key = "topic_prefix"
    THEN (IF data.topic_prefix = "absent" THEN "absent"
          ELSE IF data.topic_prefix = "nonstr" THEN "int" ELSE "str")
  ELSE IF key = "p_max_kw" THEN data.p_max_kw.t
  ELSE data[key]

\* AgentConfig._validate_fields: "ok" or the exception it raises
validate_fields(data) ==
  IF \E key \in RequiredFields : FieldType(data, key) = "absent" THEN "ValueError"
  ELSE IF \E key \in RequiredFields : ~IsInstance(FieldType(data, key), required[key])
    THEN "TypeError"
  ELSE IF ~IsInstance(FieldType(data, "topic_prefix"), "str")
            /\ data.topic_prefix # "absent"
    THEN "TypeError"
  ELSE IF data.device_type \notin {"pv", "battery", "ev"} THEN "ValueError"
  ELSE "ok"

NoConfig == [device_type |-> "none", p_max_kw |-> 0, topic_prefix |-> "der"]

\* AgentConfig.load: _validate_fields, then cls(**data), which raises
\* TypeError for a keyword that is not a field; float(True) is 1.0
load(data) ==
  LET r == validate_fields(data)
  IN  IF r # "ok" THEN [res |-> r, config |-> NoConfig]
      ELSE IF data.extra THEN [res |-> "TypeError", config |-> NoConfig]
      ELSE [res |-> "ok",
            config |-> [device_type |-> data.device_type,
                        p_max_kw |-> IF data.p_max_kw.t = "bool"
                                     THEN data.p_max_kw.n * AgentPowerScale
                                     ELSE data.p_max_kw.n,
                        topic_prefix |-> IF data.topic_prefix = "absent" THEN "der"
                                         ELSE data.topic_prefix]]

\* the documents of the configurations in AgentConfigs
ConfigDoc(cfg) ==
  [broker_host |-> "str", broker_port |-> "int", device_id |-> "str",
   device_type |-> cfg.device_type, site_id |-> "str",
   p_max_kw |-> [t |-> IF cfg.device_type = "pv" THEN "float" ELSE "int",
                 n |-> cfg.p_max_kw],
   publish_interval_seconds |-> "int", topic_prefix |-> "absent", extra |-> FALSE]

BaseDoc == ConfigDoc(CHOOSE cfg \in AgentConfigs : cfg.device_type = "battery")
NoDoc == [ConfigDoc(NoConfig) EXCEPT !.device_type = "absent"]

\* the configuration files the agent is started with: the three
\* configurations, the battery's with topic_prefix "der" spelled out, and
\* the battery's with one key left out or given another type or value
ConfigDocs ==
  {ConfigDoc(cfg) : cfg \in AgentConfigs}
    \cup {[BaseDoc EXCEPT !.topic_prefix = x] : x \in {"der", "nonstr"}}
    \cup {[BaseDoc EXCEPT !.extra = TRUE]}
    \cup {[BaseDoc EXCEPT !.device_type = x] : x \in {"absent", "nonstr", "wind"}}
    \cup {[BaseDoc EXCEPT !.p_max_kw = [t |-> x, n |-> 1]] :
            x \in {"absent", "str", "null", "bool"}}
    \cup {[BaseDoc EXCEPT !.broker_host = x] : x \in {"absent", "int"}}
    \cup {[BaseDoc EXCEPT !.broker_port = x] : x \in {"absent", "str", "float", "bool"}}
    \cup {[BaseDoc EXCEPT !.device_id = x] : x \in {"absent", "null"}}
    \cup {[BaseDoc EXCEPT !.site_id = x] : x \in {"absent", "bool"}}
    \cup {[BaseDoc EXCEPT !.publish_interval_seconds = x] : x \in {"absent", "float", "bool"}}

\* ---------------------------------------------------------------- agent
\* variant: the messageId is not recorded
apply_setpoint_forgets(st, message_id, new_setpoint) ==
  [st EXCEPT !.p_setpoint_kw = Some(TargetUnits(new_setpoint, AgentPowerScale))]

\* variant: the new setpoint is also written to p_actual_kw
apply_setpoint_jumps(st, message_id, new_setpoint) ==
  [st EXCEPT
    !.p_setpoint_kw = Some(TargetUnits(new_setpoint, AgentPowerScale)),
    !.p_actual_kw = TargetUnits(new_setpoint, AgentPowerScale),
    !.processed_setpoints = IF IsStr(message_id) THEN @ \cup {message_id.n} ELSE @]

\* self.p_setpoint_kw = float(new_setpoint)
set_setpoint(st, new_setpoint) ==
  [st EXCEPT !.p_setpoint_kw = Some(TargetUnits(new_setpoint, AgentPowerScale))]

\* if isinstance(message_id, str): self.processed_setpoints.add(message_id)
record_message_id(st, message_id) ==
  [st EXCEPT
    !.processed_setpoints = IF IsStr(message_id) THEN @ \cup {message_id.n} ELSE @]

\* the assignments at the end of update_from_control
apply_setpoint(st, message_id, new_setpoint) ==
  [st EXCEPT
    !.p_setpoint_kw = Some(TargetUnits(new_setpoint, AgentPowerScale)),
    !.processed_setpoints = IF IsStr(message_id) THEN @ \cup {message_id.n} ELSE @]

\* DERState.update_from_control: the next DERState and the outcome
update_from_control(st, payload, now) ==
  LET message_id == payload.messageId
      valid_until == CommandField(payload, payload.validUntilMs)
      new_setpoint == CommandField(payload, payload.targetPowerKw)
      reject(r) == [st |-> st, res |-> r]
  IN  IF payload.top # "obj" THEN reject("raised")
      ELSE IF payload.messageType # "setpoint"
                \/ ~(IsIntOrFloat(payload.v) /\ payload.v.n = 1)
        THEN reject("wrong_type")
      ELSE IF is_duplicate(st.processed_setpoints, message_id)
        THEN reject("duplicate")
      ELSE IF CommandRaises(payload) THEN reject("raised")
      ELSE IF is_expired(valid_until, now) THEN reject("expired")
      ELSE IF IsNone(new_setpoint) THEN reject("missing_target")
      ELSE IF ~is_number(new_setpoint) THEN reject("invalid_target")
      ELSE [st |-> apply_setpoint(st, message_id, new_setpoint), res |-> "applied"]

\* create_mqtt_client.on_message: decode, then update_from_control; only
\* json.JSONDecodeError is caught
Agent_on_message(st, payload, now) ==
  IF payload.enc = "bad_utf8" THEN [st |-> st, res |-> "raised"]
  ELSE IF payload.enc = "bad_json" THEN [st |-> st, res |-> "decode_error"]
  ELSE update_from_control(st, payload, now)

\* DERState.compute_pv_power at the given minute of the day with the given
\* noise (thousandths of p_max_kw)
compute_pv_power(cfg, minute, noise) ==
  LET n == Max(0, Min(720, minute - 360))
      level == Sin1000(n, 720) + noise
  IN  Max(0, RoundDiv(cfg.p_max_kw * level, 1000))

\* variant: the PV output is curtailed to a positive setpoint
pv_step_power_curtailed(st, cfg, minute, noise) ==
  IF st.p_setpoint_kw # None /\ st.p_setpoint_kw[1] >= 0
  THEN Min(st.p_setpoint_kw[1], compute_pv_power(cfg, minute, noise))
  ELSE compute_pv_power(cfg, minute, noise)

\* the PV branch of step: the power it stores
pv_step_power(st, cfg, minute, noise) == compute_pv_power(cfg, minute, noise)

\* variant: a ramp factor of 1.4
ramp_toward_overshoot(p_actual_kw, target) ==
  p_actual_kw + RoundDiv((target - p_actual_kw) * 14, 10)

\* p_actual_kw += (target - p_actual_kw) * ramp, ramp = 0.4
ramp_toward(p_actual_kw, target) ==
  p_actual_kw + RoundDiv((target - p_actual_kw) * 4, 10)

\* variant: only the upper bound is applied
clamp_soc_no_floor(soc, delta_soc) == Min(100 * AgentSocScale, soc + delta_soc)

\* max(0.0, min(100.0, soc + delta_soc))
clamp_soc(soc, delta_soc) == Max(0, Min(100 * AgentSocScale, soc + delta_soc))

\* the two lines of step that read p_setpoint_kw: the clamped target
step_target(st, cfg) ==
  LET target == IF st.p_setpoint_kw # None THEN st.p_setpoint_kw[1] ELSE 0
  IN  Max(-cfg.p_max_kw, Min(cfg.p_max_kw, target))

\* variant: the SOC update integrates the clamped setpoint, read again,
\* in place of p_actual_kw
step_soc_reads_setpoint(st, cfg, dt_seconds) ==
  [st EXCEPT
    !.soc = IF st.soc # None /\ cfg.p_max_kw > 0
            THEN Some(clamp_soc(st.soc[1],
                    RoundDiv(-(step_target(st, cfg) * 100 * AgentSocScale * dt_seconds),
                             cfg.p_max_kw * SecondsPerHour)))
            ELSE @]

\* the last lines of step: the SOC update from the new p_actual_kw
step_soc(st, cfg, dt_seconds) ==
  [st EXCEPT
    !.soc = IF st.soc # None /\ cfg.p_max_kw > 0
            THEN Some(clamp_soc(st.soc[1],
                    RoundDiv(-(st.p_actual_kw * 100 * AgentSocScale * dt_seconds),
                             cfg.p_max_kw * SecondsPerHour)))
            ELSE @]

\* the ramp of step: p_actual_kw += (target - p_actual_kw) * ramp
step_ramp(st, target) ==
  [st EXCEPT !.p_actual_kw = ramp_toward(st.p_actual_kw, target)]

\* the rest of step for a battery or an EV: the ramp and the SOC update
step_ramp_soc(st, cfg, target, dt_seconds) ==
  step_soc(step_ramp(st, target), cfg, dt_seconds)

\* DERState.step
step(st, cfg, dt_seconds, minute, noise) ==
  IF cfg.device_type = "pv"
  THEN [st EXCEPT !.p_actual_kw = pv_step_power(st, cfg, minute, noise)]
  ELSE step_ramp_soc(st, cfg, step_target(st, cfg), dt_seconds)

\* DERState.telemetry: the readings of the envelope
Agent_telemetry(st) ==
  [deviceId |-> "self", powerKw |-> st.p_actual_kw, soc |-> st.soc]

\* variant: after a failure the delay is left as it is
next_delay_constant(delay) == delay

\* delay = min(delay * 2, 30)
next_delay(delay) == Min(delay * 2, 30)

\* DERState(config=config), with __post_init__
DERState(cfg) ==
  [p_actual_kw |-> 0, p_setpoint_kw |-> None,
   soc |-> IF cfg.device_type = "pv" THEN None ELSE Some(50 * AgentSocScale),
   processed_setpoints |-> {}]

NoOp == [op |-> "init", res |-> "-", flag |-> FALSE]
NoBackoff == [delay |-> 0, failures |-> 0, slept |-> 0]
NoLocals == [target |-> 0, dt |-> 0]

\* mqtt.Client(...) as created; after connect and loop_start; after
\* loop_stop and disconnect
ClientCreated == [loop |-> FALSE, connected |-> FALSE]
ClientStarted == [loop |-> TRUE, connected |-> TRUE]
ClientStopped == [loop |-> FALSE, connected |-> FALSE]

\* no pair of concurrent calls is followed
NoCalls == [upd |-> "none"]

\* variant: the loop of run_agent is "while True"
loop_condition_true(flag) == TRUE

\* the test of "while running:"
loop_condition(flag) == flag

\* run_agent is entered with the path of a configuration file
AgentInit ==
  /\ prog = "agent"
  /\ pc = "load"
  /\ doc \in ConfigDocs
  /\ config = NoConfig
  /\ state = DERState(NoConfig)
  /\ last = NoOp
  /\ applied = {}
  /\ sim = SimIdle
  /\ sim_time = 0
  /\ tick = 0
  /\ device = "none"
  /\ telemetry = None
  /\ backoff = NoBackoff
  /\ locals = NoLocals
  /\ running = TRUE
  /\ client = ClientCreated
  /\ calls = NoCalls

\* config = AgentConfig.load(config_path); state = DERState(config=config);
\* an exception leaves run_agent.  connect_with_backoff starts with delay 1.
AgentLoad ==
  /\ prog = "agent" /\ pc = "load"
  /\ LET r == load(doc)
     IN  /\ last' = [op |-> "load", res |-> r.res, flag |-> FALSE]
         /\ IF r.res = "ok"
            THEN /\ pc' = "connect"
                 /\ config' = r.config
                 /\ state' = DERState(r.config)
                 /\ backoff' = [delay |-> 1, failures |-> 0, slept |-> 0]
            ELSE /\ pc' = "config_error"
                 /\ UNCHANGED <<config, state, backoff>>
  /\ doc' = NoDoc
  /\ UNCHANGED <<prog, calls, applied, simVars, telemetry, locals, running, client>>

\* one turn of the loop of connect_with_backoff: client.connect returns
\* (ok) or raises.  backoff.failures counts the failures so far and
\* backoff.slept is the argument of the last time.sleep.  When it returns,
\* run_agent calls client.loop_start() and sets running.
AgentConnect(ok) ==
  /\ prog = "agent" /\ pc = "connect"
  /\ IF ok
     THEN /\ pc' = "loop"
          /\ backoff' = NoBackoff
          /\ client' = ClientStarted
          /\ last' = [op |-> "connect", res |-> "ok", flag |-> backoff.failures > 0]
     ELSE /\ backoff.failures < MaxFailures
          /\ pc' = pc
          /\ client' = client
          /\ backoff' = [delay |-> next_delay(backoff.delay),
                         failures |-> backoff.failures + 1,
                         slept |-> backoff.delay]
          /\ last' = [op |-> "connect", res |-> "failed", flag |-> FALSE]
  /\ running' = TRUE
  /\ UNCHANGED <<prog, calls, agentVars, applied, simVars, telemetry, doc, locals>>

\* the clock read matters only when validUntilMs is a number
ClockInput(m, now) == IsIntOrFloat(m.validUntilMs) \/ now = 0

\* Bounds on the traffic of a behaviour: the devices with little physical
\* state (the agent's PV and its EV charger with p_max_kw 0, the
\* simulator's PV) receive every payload; a device whose physics is
\* followed (the agent's battery, the simulator's battery and EV) receives
\* the plain setpoints that drive it.
PlainMessages == {WellFormed(JAbsent, JAbsent, JNum(x)) : x \in SetpointChoices}
AgentTraffic(cfg) == IF cfg.device_type = "battery" THEN PlainMessages ELSE Messages

\* the message thread, started by client.loop_start(), delivers one payload
\* while time.time() reads now.  flag: a duplicate carried a target that
\* differs from the setpoint, or a command rejected for another reason
\* carried a messageId that the ledger does not hold.
AgentDeliver(m, now) ==
  /\ prog = "agent"
  /\ pc \in {"loop", "read", "stepped"}
  /\ ClockInput(m, now)
  /\ m \in AgentTraffic(config)
  /\ LET r == Agent_on_message(state, m, now)
     IN  /\ state' = r.st
         /\ last' = [op |-> "msg", res |-> r.res,
                     flag |-> \/ /\ r.res = "duplicate"
                                 /\ IsIntOrFloat(m.targetPowerKw)
                                 /\ state.p_setpoint_kw # Some(TargetUnits(m.targetPowerKw, AgentPowerScale))
                              \/ /\ r.res \in Rejections \ {"duplicate"}
                                 /\ IsStr(m.messageId)
                                 /\ m.messageId.n \notin r.st.processed_setpoints]
         /\ applied' = IF r.res = "applied" /\ IsStr(m.messageId)
                       THEN applied \cup {<<"self", m.messageId.n>>} ELSE applied
  /\ UNCHANGED <<prog, calls, config, simVars, telemetry, mainVars>>

\* the inputs of step a device type does not read are pinned to 0
StepInput(cfg, dt, minute, noise) ==
  IF cfg.device_type = "pv" THEN dt = 0 ELSE minute = 0 /\ noise = 0

DtSign(dt) == IF dt < 0 THEN "neg" ELSE IF dt = 0 THEN "zero" ELSE "pos"

\* the try block of run_agent's loop: client.publish returns (published)
\* or raises, and the exception is caught; the readings that went out
Agent_publish(st, published) ==
  IF published THEN Some(Agent_telemetry(st)) ELSE None

\* one iteration of run_agent's loop with no delivery in between:
\* state.step(dt), state.telemetry(), client.publish.  flag: the publish
\* raised.
AgentStep(dt, minute, noise, published) ==
  /\ prog = "agent" /\ pc = "loop"
  /\ loop_condition(running)
  /\ StepInput(config, dt, minute, noise)
  /\ state' = step(state, config, dt, minute, noise)
  /\ telemetry' = Agent_publish(state', published)
  /\ last' = [op |-> "step", res |-> DtSign(dt), flag |-> ~published]
  /\ UNCHANGED <<prog, calls, config, applied, simVars, mainVars>>

\* -------------------------------------------------- simulator behaviour
\* States of the running simulator a behaviour starts from: the state right
\* after import (EV soc drawn by random.uniform(0.2, 0.8), battery at 0.5),
\* and states the tick loop reaches after many ticks (a battery that has
\* run close to a SOC bound, an EV close to the cutoff or to full charge).
\* soc is in SOC units of the device, p in power units.
SimStarts ==
  {[device |-> "pv-001", sim_time |-> 46795, soc |-> 0, p |-> None],
   [device |-> "bat-001", sim_time |-> 25195, soc |-> BatDen \div 2, p |-> None],
   [device |-> "bat-001", sim_time |-> 25195, soc |-> BATTERY_MAX_SOC - 10, p |-> Some(12)],
   [device |-> "bat-001", sim_time |-> 25195, soc |-> BATTERY_MIN_SOC + 10, p |-> Some(-12)],
   [device |-> "ev-001", sim_time |-> 82795, soc |-> EvDen("ev-001") \div 5, p |-> None],
   [device |-> "ev-001", sim_time |-> 82795, soc |-> EvCutoff("ev-001") - 50, p |-> Some(72)],
   [device |-> "ev-001", sim_time |-> 82795, soc |-> EvDen("ev-001") - 3, p |-> Some(0)]}

SimStartGlobals(s) ==
  LET g == SimGlobals([d \in EvIds |-> IF d = s.device THEN s.soc ELSE EvDen(d) \div 2])
  IN  IF s.p = None THEN g
      ELSE IF DEVICES[s.device].type = "battery"
        THEN [g EXCEPT !.BATTERY_STATE = [soc |-> s.soc, p_actual_kw |-> s.p[1]]]
      ELSE [g EXCEPT !.EV_STATE[s.device].p_actual_kw = s.p[1],
                     !.LAST_P_ACTUAL[s.device] = s.p]

SimInit ==
  /\ prog = "sim"
  /\ \E s \in SimStarts :
        /\ device = s.device
        /\ sim_time = s.sim_time
        /\ sim = SimStartGlobals(s)
  /\ tick = 0
  /\ telemetry = None
  /\ config = NoConfig
  /\ state = DERState(NoConfig)
  /\ last = NoOp
  /\ applied = {}
  /\ pc = "loop"
  /\ doc = NoDoc
  /\ backoff = NoBackoff
  /\ locals = NoLocals
  /\ running = TRUE
  /\ client = ClientStarted
  /\ calls = NoCalls

\* While the simulator's PV entry is followed (its loop body keeps no
\* state) every payload is delivered for it, and setpoints with a messageId
\* are delivered for a second device, ev-003.  The battery and the EV get
\* plain setpoints; the profile topic is delivered while the battery, whose
\* target always depends on the profile, is followed.
OtherMessages == {WellFormed(JStr(i), JAbsent, JNum(40)) : i \in MsgIds}
SimTraffic(d) == IF DEVICES[d].type = "pv" THEN Messages ELSE PlainMessages

\* the network thread delivers one payload on a setpoints topic; flag as
\* in AgentDeliver
SimDeliver(d, m, now) ==
  /\ prog = "sim" /\ pc = "loop"
  /\ ClockInput(m, now)
  /\ \/ d = device /\ m \in SimTraffic(device)
     \/ d = "ev-003" /\ DEVICES[device].type = "pv" /\ m \in OtherMessages
  /\ LET r == Sim_on_message(sim, d, m, now)
     IN  /\ sim' = r.g
         /\ last' = [op |-> "msg", res |-> r.res,
                     flag |-> \/ /\ r.res = "duplicate"
                                 /\ IsIntOrFloat(m.targetPowerKw)
                                 /\ sim.SETPOINTS[d] # Some(TargetUnits(m.targetPowerKw, SimPowerScale))
                              \/ /\ r.res \in Rejections \ {"duplicate"}
                                 /\ IsStr(m.messageId)
                                 /\ m.messageId.n \notin r.g.PROCESSED_SETPOINTS]
         /\ applied' = IF r.res = "applied" /\ IsStr(m.messageId)
                       THEN applied \cup {<<d, m.messageId.n>>} ELSE applied
  /\ UNCHANGED <<prog, calls, agentVars, sim_time, tick, device, telemetry, mainVars>>

\* the network thread delivers one payload on the profile topic
SimProfile(enc, top, profile) ==
  /\ prog = "sim" /\ pc = "loop"
  /\ DEVICES[device].type = "battery"
  /\ LET r == Sim_on_profile(sim, enc, top, profile)
     IN  /\ sim' = r.g
         /\ last' = [op |-> "profile", res |-> r.res, flag |-> FALSE]
  /\ UNCHANGED <<prog, calls, agentVars, applied, sim_time, tick, device, telemetry, mainVars>>

\* one iteration of main's loop, for the followed device.  The draws the
\* device type does not make are pinned to 0 (pv: noise in thousandths).
\* client.publish returns (published) or raises; main has no handler for
\* the exception, which leaves the loop through the finally block (the
\* network thread is stopped).  flag: the publish raised.
SimTick(noise, jitter, published) ==
  /\ prog = "sim" /\ pc = "loop"
  /\ tick < MaxTicks
  /\ IF DEVICES[device].type = "pv" THEN noise \in NoiseChoices
                                    ELSE noise \in RampNoiseChoices
  /\ \/ DEVICES[device].type = "ev" /\ sim.SETPOINTS[device] = None
     \/ jitter = 0
  /\ LET t == (sim_time + DT_SECONDS) % SecondsPerDay
         profile == active_profile(sim, MinuteOf(t))
         load_multiplier == profile_load_multiplier(MinuteOf(t), profile)
         r == DeviceBody(sim, device, MinuteOf(t), load_multiplier, noise, jitter)
     IN  /\ sim_time' = t
         /\ tick' = tick + 1
         /\ sim' = r.g
         /\ telemetry' = IF published THEN Some(r.readings) ELSE None
         /\ pc' = IF published THEN pc ELSE "raised"
         /\ client' = IF published THEN client ELSE ClientStopped
         /\ last' = [op |-> "tick", res |-> profile, flag |-> ~published]
  /\ UNCHANGED <<prog, calls, agentVars, applied, device, doc, backoff, locals, running>>

Init == AgentInit \/ SimInit

Next ==
  \/ AgentLoad
  \/ \E ok \in BOOLEAN : AgentConnect(ok)
  \/ \E m \in Messages, now \in 0..MaxNow : AgentDeliver(m, now)
  \/ \E dt \in DtChoices, minute \in PvMinutes, noise \in NoiseChoices,
        published \in BOOLEAN : AgentStep(dt, minute, noise, published)
  \/ \E d \in DeviceIds, m \in Messages, now \in 0..MaxNow : SimDeliver(d, m, now)
  \/ \E enc \in {"json", "bad_json", "bad_utf8"}, top \in {"obj", "nonobj"},
        profile \in {"day", "night", "dusk", "absent"} : SimProfile(enc, top, profile)
  \/ \E noise \in NoiseChoices \cup RampNoiseChoices, jitter \in JitterChoices,
        published \in BOOLEAN : SimTick(noise, jitter, published)

Spec == Init /\ [][Next]_vars

\* ------------------------------------------- the two threads of the agent
\* Spec takes one iteration of run_agent's loop as one action.  Here the
\* main thread runs step in two parts, the lines that read p_setpoint_kw
\* and the lines that write p_actual_kw and soc, while the message thread
\* of client.loop_start() runs on_message; the program has no lock.  The
\* device is a battery or an EV charger.
ThreadsInit ==
  /\ prog = "agent"
  /\ pc = "loop"
  /\ config \in {cfg \in AgentConfigs : cfg.device_type # "pv"}
  /\ state = DERState(config)
  /\ last = NoOp
  /\ applied = {}
  /\ sim = SimIdle
  /\ sim_time = 0
  /\ tick = 0
  /\ device = "none"
  /\ telemetry = None
  /\ doc = NoDoc
  /\ backoff = NoBackoff
  /\ locals = NoLocals
  /\ running = TRUE
  /\ client = ClientStarted
  /\ calls = NoCalls

\* the test of the while loop, then step up to the clamp of target
StepRead(dt) ==
  /\ prog = "agent" /\ pc = "loop"
  /\ loop_condition(running)
  /\ pc' = "read"
  /\ locals' = [target |-> step_target(state, config), dt |-> dt]
  /\ last' = [op |-> "read", res |-> DtSign(dt), flag |-> FALSE]
  /\ UNCHANGED <<prog, calls, agentVars, applied, simVars, telemetry, doc, backoff, running, client>>

\* the rest of step
StepWrite ==
  /\ prog = "agent" /\ pc = "read"
  /\ pc' = "stepped"
  /\ state' = step_ramp_soc(state, config, locals.target, locals.dt)
  /\ locals' = NoLocals
  /\ last' = [op |-> "step", res |-> DtSign(locals.dt), flag |-> FALSE]
  /\ UNCHANGED <<prog, calls, config, applied, simVars, telemetry, doc, backoff, running, client>>

\* state.telemetry() and the try block around client.publish
StepPublish(published) ==
  /\ prog = "agent" /\ pc = "stepped"
  /\ pc' = "loop"
  /\ telemetry' = Agent_publish(state, published)
  /\ last' = [op |-> "publish", res |-> "-", flag |-> ~published]
  /\ UNCHANGED <<prog, calls, agentVars, applied, simVars, doc, backoff, locals, running, client>>

ThreadsNext ==
  \/ \E m \in Messages, now \in 0..MaxNow : AgentDeliver(m, now)
  \/ \E dt \in DtChoices : StepRead(dt)
  \/ StepWrite
  \/ \E published \in BOOLEAN : StepPublish(published)

SpecThreads == ThreadsInit /\ [][ThreadsNext]_vars

\* ------------------------------------------------- shutdown of the agent
\* handle_signal, installed for SIGINT and SIGTERM before the loop starts:
\* the interpreter runs it on the main thread between two of its steps, and
\* a time.sleep it interrupts is resumed
Signal ==
  /\ prog = "agent"
  /\ pc \in {"loop", "read", "stepped"}
  /\ running' = FALSE
  /\ UNCHANGED <<prog, calls, agentVars, last, applied, simVars, telemetry,
                 pc, doc, backoff, locals, client>>

\* the test of the while loop fails: client.loop_stop(), client.disconnect()
\* and run_agent returns
LoopExit ==
  /\ prog = "agent" /\ pc = "loop"
  /\ ~loop_condition(running)
  /\ pc' = "exited"
  /\ client' = ClientStopped
  /\ last' = [op |-> "exit", res |-> "-", flag |-> FALSE]
  /\ UNCHANGED <<prog, calls, agentVars, applied, simVars, telemetry, doc, backoff,
                 locals, running>>

\* the steps of the main thread
MainThread ==
  \/ \E dt \in DtChoices : StepRead(dt)
  \/ StepWrite
  \/ \E published \in BOOLEAN : StepPublish(published)
  \/ LoopExit

ShutdownNext ==
  \/ \E m \in Messages, now \in 0..MaxNow : AgentDeliver(m, now)
  \/ Signal
  \/ MainThread

\* the main thread is scheduled: step and publish return, time.sleep ends
SpecShutdown == ThreadsInit /\ [][ShutdownNext]_vars /\ WF_vars(MainThread)

\* ------------------------- one update_from_control call against one step
\* The two calls run on the message thread and on the main thread, each as
\* the sequence of its reads and writes of the fields of the DERState.
\* States the DERState can be in when the calls start: as created, after a
\* setpoint with messageId 1 was applied, and after a step on that.
InterleaveStarts(cfg) ==
  LET fresh == DERState(cfg)
      admitted == {update_from_control(fresh, WellFormed(JStr(1), JAbsent, JNum(x)), 0).st :
                     x \in SetpointChoices}
      stepped == {step(st, cfg, IF cfg.device_type = "pv" THEN 0 ELSE 3600, 720, 0) :
                    st \in admitted}
  IN  {fresh} \cup admitted \cup stepped

InterleaveInit ==
  /\ prog = "agent"
  /\ pc = "loop"
  /\ config \in AgentConfigs
  /\ state \in InterleaveStarts(config)
  /\ \E m \in {x \in Messages : x.enc = "json"}, now \in 0..MaxNow,
        dt \in DtChoices, minute \in PvMinutes, noise \in NoiseChoices :
        /\ ClockInput(m, now)
        /\ StepInput(config, dt, minute, noise)
        /\ calls = [start |-> state, payload |-> m, now |-> now, dt |-> dt,
                    minute |-> minute, noise |-> noise, upd |-> "idle",
                    res |-> "-", tested_at |-> "-", read_at |-> "-"]
  /\ last = NoOp
  /\ applied = {}
  /\ sim = SimIdle
  /\ sim_time = 0
  /\ tick = 0
  /\ device = "none"
  /\ telemetry = None
  /\ doc = NoDoc
  /\ backoff = NoBackoff
  /\ locals = NoLocals
  /\ running = TRUE
  /\ client = ClientStarted

InterleaveFrame == <<prog, config, last, applied, simVars, telemetry, doc,
                     backoff, running, client>>

\* update_from_control up to the last check: it reads processed_setpoints
\* and the clock
UpdateAdmit ==
  /\ calls.upd = "idle"
  /\ LET r == update_from_control(state, calls.payload, calls.now)
     IN  calls' = [calls EXCEPT !.res = r.res,
                     !.upd = IF r.res = "applied" THEN "admitted" ELSE "done"]
  /\ UNCHANGED <<InterleaveFrame, state, pc, locals>>

\* self.p_setpoint_kw = float(new_setpoint)
UpdateWriteSetpoint ==
  /\ calls.upd = "admitted"
  /\ state' = set_setpoint(state, CommandField(calls.payload, calls.payload.targetPowerKw))
  /\ calls' = [calls EXCEPT !.upd = "set"]
  /\ UNCHANGED <<InterleaveFrame, pc, locals>>

\* self.processed_setpoints.add(message_id)
UpdateWriteLedger ==
  /\ calls.upd = "set"
  /\ state' = record_message_id(state, calls.payload.messageId)
  /\ calls' = [calls EXCEPT !.upd = "done"]
  /\ UNCHANGED <<InterleaveFrame, pc, locals>>

\* step reads p_setpoint_kw for the test "is not None"
StepTestSetpoint ==
  /\ calls.upd # "none" /\ pc = "loop"
  /\ pc' = IF config.device_type = "pv" THEN "pv"
           ELSE IF state.p_setpoint_kw # None THEN "not_none" ELSE "none"
  /\ locals' = [target |-> 0, dt |-> calls.dt]
  /\ calls' = [calls EXCEPT !.tested_at = calls.upd]
  /\ UNCHANGED <<InterleaveFrame, state>>

\* step reads p_setpoint_kw again for its value when the test found one,
\* takes 0.0 otherwise, and clamps the target
StepReadSetpoint ==
  /\ calls.upd # "none" /\ pc \in {"not_none", "none"}
  /\ pc' = "read"
  /\ locals' = [locals EXCEPT !.target =
                  IF pc = "not_none" THEN step_target(state, config)
                  ELSE step_target(DERState(config), config)]
  /\ calls' = [calls EXCEPT !.read_at = IF pc = "not_none" THEN calls.upd ELSE "-"]
  /\ UNCHANGED <<InterleaveFrame, state>>

\* step reads and writes p_actual_kw (for a PV source, from the curve)
StepWritePower ==
  /\ calls.upd # "none" /\ pc \in {"read", "pv"}
  /\ IF pc = "pv"
     THEN /\ state' = [state EXCEPT !.p_actual_kw =
                         pv_step_power(state, config, calls.minute, calls.noise)]
          /\ pc' = "stepped"
     ELSE /\ state' = step_ramp(state, locals.target)
          /\ pc' = "ramped"
  /\ UNCHANGED <<InterleaveFrame, locals, calls>>

\* step reads soc and p_actual_kw and writes soc
StepWriteSoc ==
  /\ calls.upd # "none" /\ pc = "ramped"
  /\ state' = step_soc(state, config, locals.dt)
  /\ pc' = "stepped"
  /\ UNCHANGED <<InterleaveFrame, locals, calls>>

InterleaveNext ==
  \/ UpdateAdmit
  \/ UpdateWriteSetpoint
  \/ UpdateWriteLedger
  \/ StepTestSetpoint
  \/ StepReadSetpoint
  \/ StepWritePower
  \/ StepWriteSoc

SpecInterleave == InterleaveInit /\ [][InterleaveNext]_vars

\* --------------------------------------------- discharge scenario (agent)
\* A 4.0 kW battery at SOC 50 whose setpoint +4.0 kW has been admitted; from
\* then on run_agent's loop only steps, with a positive dt.
ScenarioConfig == [device_type |-> "battery", p_max_kw |-> 4 * AgentPowerScale,
                   topic_prefix |-> "der"]
ScenarioDts == {36, 72, 180, 360, 3600}

ScenarioInit ==
  /\ prog = "agent"
  /\ config = ScenarioConfig
  /\ state = update_from_control(DERState(ScenarioConfig),
                                 WellFormed(JStr(1), JAbsent, JNum(4 * WireScale)), 0).st
  /\ last = [op |-> "msg", res |-> "applied", flag |-> FALSE]
  /\ applied = {<<"self", 1>>}
  /\ sim = SimIdle
  /\ sim_time = 0
  /\ tick = 0
  /\ device = "none"
  /\ telemetry = None
  /\ pc = "loop"
  /\ doc = NoDoc
  /\ backoff = NoBackoff
  /\ locals = NoLocals
  /\ running = TRUE
  /\ client = ClientStarted
  /\ calls = NoCalls

ScenarioNext == \E dt \in ScenarioDts, published \in BOOLEAN : AgentStep(dt, 0, 0, published)

\* the loop of run_agent keeps stepping while running is set
SpecScenario == ScenarioInit /\ [][ScenarioNext]_vars /\ WF_vars(ScenarioNext)

\* ================================================================ claims
\* a decoded JSON object
Decodable(m) == m.enc = "json" /\ m.top = "obj"
\* an envelope that passes the version / messageType check
RightType(m) == m.messageType = "setpoint" /\ IsIntOrFloat(m.v) /\ m.v.n = 1
\* the envelope has a command object
HasCommand(m) == m.payload = "obj" /\ m.command = "obj"
SameSetpointAndLedger(a, b) ==
  /\ a.p_setpoint_kw = b.p_setpoint_kw
  /\ a.processed_setpoints = b.processed_setpoints
SameSetpointsAndLedger(a, b) ==
  /\ a.SETPOINTS = b.SETPOINTS
  /\ a.PROCESSED_SETPOINTS = b.PROCESSED_SETPOINTS

\* C1: after any deliveries and steps, a delivery of an envelope whose
\* messageId was already applied on the device is rejected as a duplicate
\* and leaves the setpoint and the ledger as they were, whatever its target.
C1_DuplicateRejected ==
  /\ prog = "agent" =>
       \A m \in Messages, now \in 0..MaxNow :
         (ClockInput(m, now) /\ Decodable(m) /\ IsStr(m.messageId)
            /\ <<"self", m.messageId.n>> \in applied)
           => LET r == Agent_on_message(state, m, now)
              IN  /\ r.res \in Rejections
                  /\ RightType(m) => r.res = "duplicate"
                  /\ SameSetpointAndLedger(r.st, state)
  /\ prog = "sim" =>
       \A d \in DeviceIds, m \in Messages, now \in 0..MaxNow :
         (ClockInput(m, now) /\ Decodable(m) /\ IsStr(m.messageId)
            /\ <<d, m.messageId.n>> \in applied)
           => LET r == Sim_on_message(sim, d, m, now)
              IN  /\ r.res \in Rejections
                  /\ RightType(m) => r.res = "duplicate"
                  /\ SameSetpointsAndLedger(r.g, sim)

\* a duplicate carrying a target different from the current setpoint was
\* just rejected, after a command without that messageId had been applied
C1_Witness ==
  /\ last.op = "msg" /\ last.res = "duplicate" /\ last.flag
  /\ \/ prog = "agent" /\ Cardinality(state.processed_setpoints) >= 2
     \/ prog = "sim" /\ Cardinality(sim.PROCESSED_SETPOINTS) >= 2

\* C2: an envelope whose command has a numeric validUntilMs below the clock
\* is rejected (as expired when nothing earlier rejects it), the setpoint and
\* the ledger are unchanged; no other envelope is rejected as expired.
C2_ExpiredRejected ==
  \A m \in Messages, now \in 0..MaxNow :
    LET late == HasCommand(m) /\ m.validUntilMs.t = "num" /\ m.validUntilMs.n < now
        ra == Agent_on_message(state, m, now)
        rs == Sim_on_message(sim, device, m, now)
    IN  Decodable(m) =>
          /\ prog = "agent" =>
               /\ late => /\ ra.res \in Rejections
                          /\ SameSetpointAndLedger(ra.st, state)
                          /\ (RightType(m) /\ ~is_duplicate(state.processed_setpoints, m.messageId))
                                => ra.res = "expired"
               /\ ~late => ra.res # "expired"
          /\ prog = "sim" =>
               /\ late => /\ rs.res \in Rejections
                          /\ SameSetpointsAndLedger(rs.g, sim)
                          /\ (RightType(m) /\ ~is_duplicate(sim.PROCESSED_SETPOINTS, m.messageId))
                                => rs.res = "expired"
               /\ ~late => rs.res # "expired"

\* an expired command was just rejected while a setpoint was in force
C2_Witness ==
  /\ last.op = "msg" /\ last.res = "expired"
  /\ \/ prog = "agent" /\ state.p_setpoint_kw # None
     \/ prog = "sim" /\ sim.SETPOINTS[device] # None

\* C3: after every step the actual power is within [-pMax, pMax], for the
\* agent's device and for every simulated device (the published power).
C3_PowerWithinPMax ==
  /\ (prog = "agent" /\ last.op = "step")
        => Abs(state.p_actual_kw) <= config.p_max_kw
  /\ (prog = "sim" /\ telemetry # None)
        => Abs(telemetry[1].powerKw) <= DEVICES[device].p_max_kw

\* C4: the SOC is inside its bounds in every state: [0, 100] in the agent,
\* [0.1, 0.9] for the simulator's battery, [0, 1] for its EVs.
C4_SocWithinBounds ==
  /\ (prog = "agent" /\ state.soc # None)
        => (0 <= state.soc[1] /\ state.soc[1] <= 100 * AgentSocScale)
  /\ prog = "sim" =>
        /\ BATTERY_MIN_SOC <= sim.BATTERY_STATE.soc
        /\ sim.BATTERY_STATE.soc <= BATTERY_MAX_SOC
        /\ \A d \in EvIds : 0 <= sim.EV_STATE[d].soc /\ sim.EV_STATE[d].soc <= EvDen(d)

\* a step with a negative dt has just driven the agent's SOC to a bound
C4_Witness ==
  /\ prog = "agent" /\ last.op = "step" /\ last.res = "neg"
  /\ state.soc \in {Some(0), Some(100 * AgentSocScale)}
  /\ state.p_actual_kw # 0

\* the setpoints a device can hold
Setpoints(scale) ==
  {None} \cup {Some(TargetUnits(j, scale)) : j \in {x \in TargetValues : IsIntOrFloat(x)}}

\* C5: a PV step yields a power >= 0 that is the same for every setpoint the
\* device could hold, and leaves the setpoint and the (absent) SOC alone.
C5_PvIgnoresSetpoint ==
  /\ (prog = "agent" /\ config.device_type = "pv") =>
       \A minute \in PvMinutes, noise \in NoiseChoices, dt \in DtChoices,
          sp \in Setpoints(AgentPowerScale) :
         LET a == step(state, config, dt, minute, noise)
             b == step([state EXCEPT !.p_setpoint_kw = sp], config, dt, minute, noise)
         IN  /\ a.p_actual_kw >= 0
             /\ a.p_actual_kw = b.p_actual_kw
             /\ a.p_setpoint_kw = state.p_setpoint_kw
             /\ a.soc = None /\ state.soc = None
  /\ (prog = "sim" /\ DEVICES[device].type = "pv") =>
       \A minute \in PvMinutes \cup {MinuteOf(sim_time)}, noise \in NoiseChoices,
          sp \in Setpoints(SimPowerScale) :
         LET mult == profile_load_multiplier(minute, active_profile(sim, minute))
             a == DeviceBody(sim, device, minute, mult, noise, 0)
             b == DeviceBody([sim EXCEPT !.SETPOINTS[device] = sp], device,
                             minute, mult, noise, 0)
         IN  /\ a.readings.powerKw >= 0
             /\ a.readings.powerKw = b.readings.powerKw
             /\ a.g = sim
             /\ a.readings.soc = None

\* the agent's PV has just stepped to a positive power while holding a
\* setpoint below that power
C5_Witness ==
  /\ prog = "agent" /\ config.device_type = "pv" /\ last.op = "step"
  /\ state.p_setpoint_kw # None
  /\ state.p_actual_kw > 0 /\ state.p_setpoint_kw[1] < state.p_actual_kw

\* C6: a payload that is not a parseable JSON document makes the handler
\* return normally with the device state unchanged.
C6_MalformedHandled ==
  [][\A m \in Messages :
       m.enc # "json" =>
         /\ AgentDeliver(m, 0) => (last'.res = "decode_error" /\ state' = state)
         /\ SimDeliver(device, m, 0) => (last'.res = "decode_error" /\ sim' = sim)]_vars

\* C7: a rejected delivery leaves the whole device state unchanged; a
\* delivery that changes anything is an applied command, and it changes
\* only the setpoint and the ledger.
C7_RejectionsAreNoOps ==
  \A m \in Messages : \A now \in {t \in 0..MaxNow : ClockInput(m, t)} :
    /\ prog = "agent" =>
         LET r == Agent_on_message(state, m, now)
         IN  /\ r.res \in Rejections => r.st = state
             /\ r.st # state => r.res = "applied"
             /\ r.st.p_actual_kw = state.p_actual_kw
             /\ r.st.soc = state.soc
    /\ prog = "sim" =>
         \A d \in DeviceIds :
           LET r == Sim_on_message(sim, d, m, now)
           IN  /\ r.res \in Rejections => r.g = sim
               /\ r.g # sim => r.res = "applied"
               /\ r.g.BATTERY_STATE = sim.BATTERY_STATE
               /\ r.g.EV_STATE = sim.EV_STATE
               /\ r.g.LAST_P_ACTUAL = sim.LAST_P_ACTUAL
               /\ r.g.SIM_PROFILE_OVERRIDE = sim.SIM_PROFILE_OVERRIDE
               /\ \A e \in DeviceIds \ {d} : r.g.SETPOINTS[e] = sim.SETPOINTS[e]

\* an envelope of the wrong version or type was just rejected by an agent
\* that is away from its initial state in power, setpoint and ledger
C7_Witness ==
  /\ prog = "agent" /\ last.op = "msg" /\ last.res = "wrong_type"
  /\ state.p_actual_kw # 0
  /\ state.p_setpoint_kw # None
  /\ state.processed_setpoints # {}

\* C8: a version-1 setpoint envelope whose targetPowerKw is absent, null or
\* not a JSON number is rejected; the setpoint and the ledger are unchanged.
C8_NonNumberTargetRejected ==
  [][\A m \in Messages, now \in 0..MaxNow :
       (Decodable(m) /\ RightType(m)
          /\ CommandField(m, m.targetPowerKw).t # "num" /\ ~CommandRaises(m)) =>
         /\ AgentDeliver(m, now) =>
              (last'.res \in Rejections /\ SameSetpointAndLedger(state', state))
         /\ SimDeliver(device, m, now) =>
              (last'.res \in Rejections /\ SameSetpointsAndLedger(sim', sim))]_vars

\* C9: in the simulator, an EV whose SOC is at or above the cutoff stays at
\* or above it and shows p_actual_kw 0, and a tick that ends at or above the
\* cutoff publishes power 0 (when its publish goes out), whatever the
\* setpoint.
C9_EvCutoff ==
  [][\A d \in EvIds :
       /\ sim.EV_STATE[d].soc >= EvCutoff(d) =>
            /\ sim'.EV_STATE[d].soc >= EvCutoff(d)
            /\ sim'.EV_STATE[d].p_actual_kw = 0
       /\ (prog = "sim" /\ tick' # tick /\ device = d
             /\ sim'.EV_STATE[d].soc >= EvCutoff(d)) =>
            /\ sim'.EV_STATE[d].p_actual_kw = 0
            /\ ~last'.flag => (telemetry' # None /\ telemetry'[1].powerKw = 0)
            /\ sim'.LAST_P_ACTUAL[d] = Some(0)]_vars

\* an EV that crossed the cutoff while charging has ticked again above the
\* cutoff with a positive setpoint in force, and shows power 0
C9_Witness ==
  /\ prog = "sim" /\ device = "ev-001" /\ last.op = "tick" /\ tick = 2
  /\ sim.EV_STATE[device].soc >= EvCutoff(device) + 1
  /\ sim.EV_STATE[device].soc < EvDen(device) - 3
  /\ sim.SETPOINTS[device] = Some(40)
  /\ sim.EV_STATE[device].p_setpoint_kw = Some(40)
  /\ sim.EV_STATE[device].p_actual_kw = 0

C11_PublishFailureAbsorbed ==
  (last.op \in {"step", "tick"} /\ last.flag) => pc = "loop"

\* C12: while the main thread is inside step, between its read of
\* p_setpoint_kw and its writes of p_actual_kw and soc, the next thing that
\* happens to the agent is the rest of that step: no delivery (on_message ->
\* update_from_control) runs in between.
C12_AccessSerialized ==
  [][pc = "read" => (pc' = "stepped" /\ last'.op = "step")]_vars

\* the delay the claim states for the sleep after the k-th failure
\* (k = 1, 2, ...): 1, 2, 4, 8, 16, 30, 30, ...
ClaimedDelay(k) == IF 2^(k - 1) < 30 THEN 2^(k - 1) ELSE 30

\* C13: while connect_with_backoff runs, the sleep after the k-th failure
\* lasted ClaimedDelay(k) and the next one will last ClaimedDelay(k + 1); a
\* failed attempt is followed by a sleep and another attempt, whatever the
\* number of failures, and the first successful attempt returns to
\* run_agent.
C13_BackoffRetries ==
  /\ [](pc = "connect" =>
          /\ backoff.delay = ClaimedDelay(backoff.failures + 1)
          /\ backoff.failures > 0 => backoff.slept = ClaimedDelay(backoff.failures)
          /\ ENABLED AgentConnect(TRUE))
  /\ [][pc = "connect" =>
          \/ /\ last'.res = "ok"
             /\ pc' = "loop"
          \/ /\ last'.res = "failed"
             /\ pc' = "connect"
             /\ backoff'.failures = backoff.failures + 1
             /\ backoff'.slept = ClaimedDelay(backoff.failures + 1)]_vars

\* the seventh attempt has failed: the sleeps were 1, 2, 4, 8, 16, 30 and
\* 30 seconds, and the function is still trying
C13_Witness ==
  /\ pc = "connect" /\ last.op = "connect" /\ last.res = "failed"
  /\ backoff.failures >= 7
  /\ backoff.slept = 30 /\ backoff.delay = 30

\* every required field is there with the type the configuration format
\* gives it: strings, JSON integers for broker_port and
\* publish_interval_seconds, a JSON number for p_max_kw, and a device_type
\* out of pv, battery, ev
RightlyTyped(data) ==
  /\ \A key \in {"broker_host", "device_id", "site_id"} : data[key] = "str"
  /\ data.broker_port = "int"
  /\ data.publish_interval_seconds = "int"
  /\ data.p_max_kw.t \in {"int", "float"}
  /\ data.device_type \in {"pv", "battery", "ev"}

\* C14: loading a document that has exactly the required fields, rightly
\* typed, and no topic_prefix yields a config with topic_prefix "der";
\* loading a document with a missing or wrongly typed required field or
\* another device_type raises and yields no config.
C14_LoadValidates ==
  [][pc = "load" =>
       /\ (RightlyTyped(doc) /\ doc.topic_prefix = "absent" /\ ~doc.extra) =>
            /\ pc' = "connect"
            /\ last'.res = "ok"
            /\ config'.device_type = doc.device_type
            /\ config'.topic_prefix = "der"
       /\ ~RightlyTyped(doc) =>
            /\ pc' = "config_error"
            /\ last'.res \in {"ValueError", "TypeError"}
            /\ config' = NoConfig]_vars

\* C15: the delivery of any parseable JSON document, whatever the shape of
\* its members, ends as an applied command or as one of the explicit
\* rejections; the handler does not raise.
C15_AdmissionTotal ==
  [][\A m \in Messages, now \in 0..MaxNow :
       m.enc = "json" =>
         /\ AgentDeliver(m, now) => last'.res \in Rejections \cup {"applied"}
         /\ SimDeliver(device, m, now) => last'.res \in Rejections \cup {"applied"}]_vars

\* the dedup ledger of the running program
Ledger == IF prog = "agent" THEN state.processed_setpoints
                            ELSE sim.PROCESSED_SETPOINTS

\* C16: in every state the ledger holds exactly the messageIds (strings, as
\* the envelope format has them) of the commands applied so far; no step
\* removes an id from it, and only a delivery that ends as applied changes
\* it.
C16_LedgerExact ==
  /\ [](Ledger = {a[2] : a \in applied})
  /\ [][/\ Ledger \subseteq Ledger'
        /\ Ledger' # Ledger => (last'.op = "msg" /\ last'.res = "applied")]_vars

\* with one command applied and its id in the ledger, a command carrying
\* another messageId was just rejected as expired, and its id is not in
\* the ledger
C16_Witness ==
  /\ last.op = "msg" /\ last.res = "expired" /\ last.flag
  /\ Cardinality(Ledger) = 1
  /\ Cardinality(applied) = 1

\* C17: a battery or EV step that ends with a positive power does not
\* raise the SOC and one that ends with a negative power does not lower
\* it, in the agent and for the simulator's battery and EVs.
C17_SocSignConvention ==
  [][/\ (prog = "agent" /\ last'.op = "step" /\ state.soc # None) =>
          /\ state'.p_actual_kw > 0 => state'.soc[1] <= state.soc[1]
          /\ state'.p_actual_kw < 0 => state'.soc[1] >= state.soc[1]
     /\ (prog = "sim" /\ tick' # tick /\ DEVICES[device].type = "battery") =>
          /\ sim'.BATTERY_STATE.p_actual_kw > 0
                => sim'.BATTERY_STATE.soc <= sim.BATTERY_STATE.soc
          /\ sim'.BATTERY_STATE.p_actual_kw < 0
                => sim'.BATTERY_STATE.soc >= sim.BATTERY_STATE.soc
     /\ (prog = "sim" /\ tick' # tick /\ DEVICES[device].type = "ev") =>
          /\ sim'.EV_STATE[device].p_actual_kw > 0
                => sim'.EV_STATE[device].soc <= sim.EV_STATE[device].soc
          /\ sim'.EV_STATE[device].p_actual_kw < 0
                => sim'.EV_STATE[device].soc >= sim.EV_STATE[device].soc]_vars

\* the target the claim gives a step: the setpoint clamped to
\* [-p_max, p_max], or 0 when there is none
ClaimedTarget(setpoint, p_max) ==
  Max(-p_max, Min(p_max, IF setpoint # None THEN setpoint[1] ELSE 0))

\* C18: every battery or EV step moves the power as a ramp toward
\* ClaimedTarget of the setpoint held when the step starts: by the agent's
\* smoothing in the agent, by ramp_power (for one of its random draws) in
\* the simulator, where an EV tick that ends in the charge-complete cutoff
\* is left aside.
C18_TargetIsSetpoint ==
  [][/\ (prog = "agent" /\ last'.op = "step" /\ config.device_type # "pv") =>
          state'.p_actual_kw =
            ramp_toward(state.p_actual_kw,
                        ClaimedTarget(state.p_setpoint_kw, config.p_max_kw))
     /\ (prog = "sim" /\ tick' # tick /\ DEVICES[device].type = "battery") =>
          LET p_max == DEVICES[device].p_max_kw
              target == ClaimedTarget(sim.SETPOINTS[device], p_max)
          IN  \E noise \in RampNoiseChoices :
                sim'.BATTERY_STATE.p_actual_kw =
                  ramp_power(sim.BATTERY_STATE.p_actual_kw, target,
                             SimPowerScale \div 2, p_max, -p_max, noise)
     /\ (prog = "sim" /\ tick' # tick /\ DEVICES[device].type = "ev"
           /\ sim'.EV_STATE[device].soc < EvCutoff(device)) =>
          LET p_max == DEVICES[device].p_max_kw
              target == ClaimedTarget(sim.SETPOINTS[device], p_max)
              current == IF sim.LAST_P_ACTUAL[device] = None THEN target
                         ELSE sim.LAST_P_ACTUAL[device][1]
          IN  \E noise \in RampNoiseChoices :
                sim'.EV_STATE[device].p_actual_kw =
                  ramp_power(current, target, SimPowerScale, p_max, 0, noise)]_vars

\* C19: a delivery on the setpoints topic of a device d leaves alone, for
\* every other device b, the setpoint of b and the outcome that any
\* command would have if it were delivered to b next.
C19_DevicesIndependent ==
  [][(prog = "sim" /\ last'.op = "msg") =>
       \E d \in DeviceIds : \A b \in DeviceIds \ {d} :
         /\ sim'.SETPOINTS[b] = sim.SETPOINTS[b]
         /\ \A mb \in Messages, now \in 0..MaxNow :
              Sim_on_message(sim', b, mb, now).res = Sim_on_message(sim, b, mb, now).res]_vars

\* the time-derived profile as the claim states it: day from 07:00 up to
\* 23:00, night otherwise
ClaimedProfile(minute) ==
  IF 7 * 60 <= minute /\ minute < 23 * 60 THEN "day" ELSE "night"

\* minutes of the day around the two switches, and noon and midnight
ProfileMinutes == {0, 419, 420, 720, 1379, 1380, 1439}

\* a profile message the claim calls valid
ValidProfile(enc, top, profile) ==
  enc = "json" /\ top = "obj" /\ profile \in {"day", "night"}

\* C20: in the simulator, active_profile is the override when there is one,
\* at every time of day, and the time-derived profile otherwise, and every
\* tick uses that profile; a valid profile message sets the override, any
\* other profile message leaves it as it is, and nothing else changes it.
C20_ProfileOverride ==
  /\ [](prog = "sim" =>
          \A minute \in ProfileMinutes \cup {MinuteOf(sim_time)} :
            active_profile(sim, minute) =
              IF sim.SIM_PROFILE_OVERRIDE # None THEN sim.SIM_PROFILE_OVERRIDE[1]
              ELSE ClaimedProfile(minute))
  /\ [][prog = "sim" =>
          /\ tick' # tick =>
               last'.res = IF sim.SIM_PROFILE_OVERRIDE # None
                           THEN sim.SIM_PROFILE_OVERRIDE[1]
                           ELSE ClaimedProfile(MinuteOf(sim_time'))
          /\ \A enc \in {"json", "bad_json", "bad_utf8"}, top \in {"obj", "nonobj"},
                profile \in {"day", "night", "dusk", "absent"} :
               SimProfile(enc, top, profile) =>
                 sim'.SIM_PROFILE_OVERRIDE =
                   IF ValidProfile(enc, top, profile) THEN Some(profile)
                   ELSE sim.SIM_PROFILE_OVERRIDE
          /\ last'.op # "profile" =>
               sim'.SIM_PROFILE_OVERRIDE = sim.SIM_PROFILE_OVERRIDE]_vars

\* a tick in the daytime has just used the profile night, which a profile
\* message had set
C20_Witness ==
  /\ prog = "sim" /\ last.op = "tick" /\ last.res = "night"
  /\ sim.SIM_PROFILE_OVERRIDE = Some("night")
  /\ ClaimedProfile(MinuteOf(sim_time)) = "day"

\* C21: once handle_signal has cleared the running flag, the flag stays
\* cleared; the main thread, wherever it is in an iteration, only moves
\* forward through it (after the first half of step comes the rest of step,
\* after step comes the publish attempt, and a signal or a delivery leaves
\* it where it is); from the top of the loop it starts no iteration and can
\* only leave; it does leave, and when run_agent has returned the client's
\* network thread is stopped and the client is disconnected.
C21_CooperativeShutdown ==
  /\ [](pc = "exited" => (~running /\ client = ClientStopped))
  /\ [][/\ ~running => ~running'
        /\ (pc = "read" /\ pc' # pc) => (pc' = "stepped" /\ last'.op = "step")
        /\ (pc = "stepped" /\ pc' # pc) => (pc' = "loop" /\ last'.op = "publish")
        /\ (pc = "loop" /\ ~running) => pc' \in {"loop", "exited"}]_vars
  /\ (~running ~> (pc = "exited" /\ client = ClientStopped))

\* run_agent has returned after a signal, having stepped and published
C21_Witness ==
  /\ pc = "exited" /\ ~running /\ client = ClientStopped
  /\ last.op = "exit"
  /\ state.p_actual_kw # 0
  /\ telemetry # None

\* the two calls of calls, one after the other: the update first, and the
\* step first
UpdateThenStep ==
  step(update_from_control(calls.start, calls.payload, calls.now).st,
       config, calls.dt, calls.minute, calls.noise)
StepThenUpdate ==
  update_from_control(step(calls.start, config, calls.dt, calls.minute, calls.noise),
                      calls.payload, calls.now).st

\* C22: when one update_from_control call and one step call that started
\* on the same DERState have both returned, whatever the order in which
\* their reads and writes of its fields were taken, the DERState is the one
\* that the update followed by the step leaves, or the one that the step
\* followed by the update leaves, and the update ended as it does when run
\* alone.
C22_InterleavingsSerializable ==
  (calls.upd = "done" /\ pc = "stepped") =>
    /\ state \in {UpdateThenStep, StepThenUpdate}
    /\ calls.res = update_from_control(calls.start, calls.payload, calls.now).res

\* both calls have returned; step tested p_setpoint_kw before the update
\* wrote it and read its value after, the two serial orders end in
\* different states, and the state is that of the update followed by the
\* step
C22_Witness ==
  /\ calls.upd = "done" /\ pc = "stepped"
  /\ calls.res = "applied"
  /\ calls.tested_at \in {"idle", "admitted"}
  /\ calls.read_at \in {"set", "done"}
  /\ UpdateThenStep # StepThenUpdate
  /\ state = UpdateThenStep

====
